---- MODULE Spec2Model ----
(***************************************************************************)
(* Model of src/app.py: the Streamlit front end of the business-card OCR   *)
(* application.  One run of the script is: the tab-1 handlers (save of an  *)
(* extracted card, manual create), the two bulk reads of tab 2, the table  *)
(* construction, the drawer handlers and the bulk-save handler.            *)
(*                                                                         *)
(* Python values are tagged records: None, NaN (a missing DataFrame cell), *)
(* str (a sequence of one-character strings), int and list.  A dict is a   *)
(* function from its keys to values.                                       *)
(***************************************************************************)
EXTENDS Integers, Sequences, FiniteSets, TLC

\* ------------------------------------------------------------------ bounds
MaxRows == 2
MaxEdits == 2
MaxRefresh == 1
MaxListLen == 2

\* ----------------------------------------------------------- Python values
NONE == [t |-> "none"]
NAN == [t |-> "nan"]
Str(s) == [t |-> "str", s |-> s]
Num(n) == [t |-> "int", n |-> n]
List(l) == [t |-> "list", l |-> l]
EmptyDict == [k \in {} |-> NONE]

IsStr(v) == v.t = "str"
IsList(v) == v.t = "list"
\* pd.isna on a scalar cell
IsNa(v) == v.t \in {"none", "nan"}
\* Python truthiness, as used by `x or default` and `if x`
Truthy(v) ==
  CASE v.t = "none" -> FALSE
    [] v.t = "nan" -> TRUE
    [] v.t = "str" -> Len(v.s) > 0
    [] v.t = "int" -> v.n # 0
    [] v.t = "list" -> Len(v.l) > 0
Or(v, d) == IF Truthy(v) THEN v ELSE d

Digit(n) == CASE n = 0 -> "0" [] n = 1 -> "1" [] n = 2 -> "2" [] n = 3 -> "3"
              [] n = 4 -> "4" [] n = 5 -> "5" [] n = 6 -> "6" [] n = 7 -> "7"
              [] n = 8 -> "8" [] n = 9 -> "9"
RECURSIVE Digits(_)
Digits(n) == IF n < 10 THEN <<Digit(n)>> ELSE Digits(n \div 10) \o <<Digit(n % 10)>>

\* str(v) for the scalar values a cell or an identifier can hold
PyStr(v) ==
  CASE v.t = "str" -> v.s
    [] v.t = "int" -> Digits(v.n)
    [] v.t = "none" -> <<"N", "o", "n", "e">>
    [] v.t = "nan" -> <<"n", "a", "n">>

\* ------------------------------------------------------------ str methods
IsSpace(c) == c = " "
RECURSIVE LStrip(_)
LStrip(s) == IF s # <<>> /\ IsSpace(Head(s)) THEN LStrip(Tail(s)) ELSE s
RECURSIVE RStrip(_)
RStrip(s) ==
  IF s # <<>> /\ IsSpace(s[Len(s)]) THEN RStrip(SubSeq(s, 1, Len(s) - 1)) ELSE s
\* a trim of the right end only
StripRightOnly(s) == RStrip(s)
\* s.strip()
Strip(s) == RStrip(LStrip(s))

\* s.split(","): the fragments between commas, empty fragments included
RECURSIVE SplitFrom(_, _, _)
SplitFrom(s, k, cur) ==
  IF k > Len(s) THEN <<cur>>
  ELSE IF s[k] = "," THEN <<cur>> \o SplitFrom(s, k + 1, <<>>)
  ELSE SplitFrom(s, k + 1, Append(cur, s[k]))
Split(s) == SplitFrom(s, 1, <<>>)

\* sep.join(parts)
RECURSIVE Join(_, _)
Join(sep, parts) ==
  IF parts = <<>> THEN <<>>
  ELSE IF Len(parts) = 1 THEN parts[1]
  ELSE parts[1] \o sep \o Join(sep, Tail(parts))

RECURSIVE KeepNonBlank(_)
KeepNonBlank(parts) ==
  IF parts = <<>> THEN <<>>
  ELSE IF Strip(Head(parts)) # <<>>
       THEN <<Str(Strip(Head(parts)))>> \o KeepNonBlank(Tail(parts))
       ELSE KeepNonBlank(Tail(parts))

\* ---------------------------------------------------------------- helpers
\* list_to_csv_str(v)
list_to_csv_str(v) ==
  IF IsList(v) THEN Str(Join(<<",", " ">>, [k \in 1..Len(v.l) |-> PyStr(v.l[k])]))
  ELSE IF v # NONE THEN v ELSE Str(<<>>)

\* csv_str_to_list(s)
csv_str_to_list(s) ==
  IF s = NONE THEN List(<<>>) ELSE List(KeepNonBlank(Split(PyStr(s))))

ListKeys == {"phone_numbers", "social_links"}

\* _clean_payload_for_backend(payload): the keys that survive, then their values
CleanKeys(payload) ==
  {k \in DOMAIN payload :
     /\ payload[k] # NONE
     /\ ~(IsStr(payload[k]) /\ Strip(payload[k].s) = <<>>)}
\* a sanitation that drops the empty string only, without trimming
clean_payload_untrimmed(payload) ==
  [k \in {x \in DOMAIN payload :
            payload[x] # NONE /\ ~(IsStr(payload[x]) /\ payload[x].s = <<>>)} |->
     IF k \in ListKeys
     THEN IF IsList(payload[k]) THEN payload[k] ELSE csv_str_to_list(payload[k])
     ELSE payload[k]]
_clean_payload_for_backend(payload) ==
  [k \in CleanKeys(payload) |->
     IF k \in ListKeys
     THEN IF IsList(payload[k]) THEN payload[k] ELSE csv_str_to_list(payload[k])
     ELSE payload[k]]

\* --------------------------------------------------------- HTTP responses
\* A call ends in a transport fault (unreachable host, timeout) or in a response
\* with a status code and a body.  Bodies: "data" is a JSON object with a
\* non-empty "data" member, "null" is {"data": null}, "nodata" is a non-empty
\* JSON object without a "data" member, "empty" is {}, "list" is a bare JSON
\* array, "text" is a body that is not JSON.
Fault == [kind |-> "fault"]
Http(st, b) == [kind |-> "http", status |-> st, body |-> b]
IsJson(b) == b # "text"
WriteResponses ==
  {Fault} \cup {Http(st, "nodata") : st \in {200, 201, 204, 500}} \cup {Http(500, "text")}
CreateResponses ==
  {Fault} \cup {Http(st, b) : st \in {200, 201, 202, 400}, b \in {"data", "null", "text"}}
FetchResponses ==
  {Fault} \cup {Http(200, b) : b \in {"data", "list", "nodata", "empty", "text"}}
          \cup {Http(500, "nodata")}

\* ---------------------------------------------------------- backend client
PatchOk == {200, 201}
DeleteOk == {200, 204}

\* The request patch_card issues: PATCH /update_card/{str(card_id)} with the
\* sanitized payload as its JSON body.
PatchRequest(card_id, payload) ==
  [op |-> "PATCH", id |-> PyStr(card_id), payload |-> payload,
   json |-> _clean_payload_for_backend(payload)]

\* an update accepted on the delete call's status codes
patch_card_204(r) ==
  IF r.kind = "fault" THEN [ok |-> FALSE, msg |-> <<"exception">>]
  ELSE IF r.status \in {200, 204} THEN [ok |-> TRUE, msg |-> <<"Updated">>]
  ELSE [ok |-> FALSE, msg |-> <<"Failed: ", r.body>>]
\* patch_card's return value (success, message) for the response r
patch_card(r) ==
  IF r.kind = "fault" THEN [ok |-> FALSE, msg |-> <<"exception">>]
  ELSE IF r.status \in PatchOk THEN [ok |-> TRUE, msg |-> <<"Updated">>]
  ELSE [ok |-> FALSE, msg |-> <<"Failed: ", r.body>>]

DeleteRequest(card_id) ==
  [op |-> "DELETE", id |-> PyStr(card_id), payload |-> EmptyDict, json |-> EmptyDict]

\* delete_card's return value (success, message) for the response r
delete_card(r) ==
  IF r.kind = "fault" THEN [ok |-> FALSE, msg |-> <<"exception">>]
  ELSE IF r.status \in DeleteOk THEN [ok |-> TRUE, msg |-> <<"Deleted">>]
  ELSE [ok |-> FALSE, msg |-> <<"Failed to delete: ", r.body>>]

\* The Python value a JSON body parses to, given the records the backend holds
Dict(d) == [t |-> "dict", d |-> d]
BodyValue(b, recs) ==
  CASE b = "data" -> Dict([data |-> List(recs)])
    [] b = "null" -> Dict([data |-> NONE])
    [] b = "nodata" -> Dict([message |-> Str(<<"o", "k">>)])
    [] b = "empty" -> Dict(EmptyDict)
    [] b = "list" -> List(recs)

\* fetch_all_cards: the value returned for response r
fetch_all_cards(r, recs) ==
  IF r.kind = "fault" \/ r.status >= 400 \/ ~IsJson(r.body) THEN List(<<>>)
  ELSE LET data == BodyValue(r.body, recs) IN
       IF data.t = "dict"
       THEN IF "data" \in DOMAIN data.d THEN data.d["data"] ELSE data
       ELSE data
\* whether fetch_all_cards reported "Failed to fetch cards"
FetchFailed(r) == r.kind = "fault" \/ r.status >= 400 \/ ~IsJson(r.body)

\* `if data:` on the value fetch_all_cards returned
HasData(v) ==
  CASE v.t = "list" -> Len(v.l) > 0
    [] v.t = "dict" -> DOMAIN v.d # {}
    [] OTHER -> Truthy(v)
\* `for d in data: d.pop("field_validations", None)` raises unless data is a
\* list of dicts: iterating a dict yields its keys, and str has no pop
PopRaises(v) == v.t # "list"

\* ------------------------------------------------------- table construction
expected_cols ==
  {"_id", "name", "designation", "company", "phone_numbers", "email", "website",
   "address", "social_links", "more_details", "additional_notes", "created_at",
   "edited_at"}

PopValidations(rec) == [k \in DOMAIN rec \ {"field_validations"} |-> rec[k]]

\* pd.DataFrame(data) followed by the expected_cols fill: a key some record
\* lacks is NaN in that row, a column no record has is "" in every row
RecordCols(recs) == UNION {DOMAIN PopValidations(recs[k]) : k \in DOMAIN recs}
DfAll(recs) ==
  [k \in 1..Len(recs) |->
     [c \in RecordCols(recs) \cup expected_cols |->
        IF c \in DOMAIN PopValidations(recs[k]) THEN recs[k][c]
        ELSE IF c \in RecordCols(recs) THEN NAN ELSE Str(<<>>)]]
\* identifiers taken in the reverse of the row order
IdsReversed(df) == [k \in 1..Len(df) |-> Str(PyStr(df[Len(df) + 1 - k]["_id"]))]
\* df_all["_id"].astype(str).tolist()
Ids(df) == [k \in 1..Len(df) |-> Str(PyStr(df[k]["_id"]))]
\* a grid that keeps the _id column
DisplayDfWithId(df) ==
  [k \in 1..Len(df) |->
     [c \in DOMAIN df[k] |->
        IF c \in ListKeys THEN list_to_csv_str(df[k][c]) ELSE df[k][c]]]
\* display_df: list columns as comma-joined text, the _id column dropped
DisplayDf(df) ==
  [k \in 1..Len(df) |->
     [c \in (DOMAIN df[k]) \ {"_id"} |->
        IF c \in ListKeys THEN list_to_csv_str(df[k][c]) ELSE df[k][c]]]

\* ------------------------------------------------------------ bulk-save diff
\* the value compared and stored for a cell: "" if pd.isna(cell) else cell
CellOrEmpty(v) == IF IsNa(v) THEN Str(<<>>) ELSE v
\* a comparison of the raw values
ChangedRaw(orig, new, col) == orig[col] # new[col]
Changed(orig, new, col) == PyStr(CellOrEmpty(orig[col])) # PyStr(CellOrEmpty(new[col]))
\* the change-set value stored for a changed column
ChangeValue(new, col) ==
  IF col \in ListKeys THEN csv_str_to_list(CellOrEmpty(new[col]))
  ELSE CellOrEmpty(new[col])
\* the inner loop over display_df.columns for one row
DiffCols(orig) == DOMAIN orig
ChangeSet(orig, new) ==
  [col \in {c \in DiffCols(orig) : Changed(orig, new, c)} |-> ChangeValue(new, col)]

\* ------------------------------------------------------------------ inputs
\* Records the backend may hold: one complete, with list-typed phone numbers;
\* one with a numeric identifier and name, a null timestamp and no phone numbers.
RecA ==
  [_id |-> Str(<<"a">>), name |-> Str(<<"x">>),
   phone_numbers |-> List(<<Str(<<"1">>), Str(<<"2">>)>>),
   created_at |-> Str(<<"t">>), field_validations |-> Str(<<"v">>)]
RecB == [_id |-> Num(7), name |-> Num(1), created_at |-> NONE]
RecordPool == {RecA, RecB}
\* Cards the extraction may return: the records above, and one whose phone
\* numbers are a comma-separated text and whose email is blank
CardC ==
  [_id |-> Str(<<"c">>), name |-> Str(<<"x">>),
   phone_numbers |-> Str(<<"1", ",", " ", "2", " ", ",", ",", "3">>),
   email |-> Str(<<" ">>)]
ExtractedCards == RecordPool \cup {CardC}
Snapshots == UNION {[1..n -> RecordPool] : n \in 0..MaxRows}

\* What the user does to a grid cell: a column and the cell's new content,
\* a cleared cell (None) or a text; an edit is possible only in a column the
\* grid shows
Edits ==
  {<<"_id", Str(<<"1">>)>>,
   <<"name", NONE>>, <<"name", Str(<<"1">>)>>,
   <<"phone_numbers", Str(<<"a", ",", " ", ",", "b">>)>>,
   <<"phone_numbers", NONE>>,
   <<"created_at", Str(<<"1">>)>>}

\* Contents of the manual-create form and of the drawer's inputs (all text)
FormKeys ==
  {"name", "designation", "company", "phones", "email", "website", "address",
   "social_links", "more_details", "additional_notes"}
FormEmpty == [k \in FormKeys |-> Str(<<>>)]
FormFilled ==
  [k \in FormKeys |->
     IF k = "name" THEN Str(<<"x">>)
     ELSE IF k = "phones" THEN Str(<<"1", ",", " ", "2">>)
     ELSE IF k = "address" THEN Str(<<" ">>)
     ELSE Str(<<>>)]
Forms == {FormEmpty, FormFilled}

\* the keys of every create payload and of the drawer's update payload
PayloadKeys ==
  {"name", "designation", "company", "phone_numbers", "email", "website",
   "address", "social_links", "more_details", "additional_notes"}

\* dict.get(k)
Get(d, k) == IF k \in DOMAIN d THEN d[k] ELSE NONE

\* ------------------------------------------------------------------- state
VARIABLES
  pc,               \* position of the script run
  shown,            \* messages rendered by the handler in progress
  calls,            \* requests issued by the handler in progress, in order
  last,             \* the backend call of a create, read or drawer handler:
                    \* operation, response, result
  df_all,           \* the fetched table
  ids,              \* _ids
  display_df,       \* the snapshot handed to the grid
  edited,           \* the grid as the user left it
  nEdits,           \* number of cell edits made
  drawer_open,      \* st.session_state["drawer_open"]
  drawer_row,       \* st.session_state["drawer_row"]; -1 is None
  refresh_counter,  \* st.session_state["refresh_counter"]
  i,                \* the bulk-save loop index
  updates,
  problems,
  failures,         \* identifier of every row update reported as failed
  rc0,              \* refresh_counter when the bulk save started
  codec_in,         \* a list handed to list_to_csv_str
  codec_text,       \* its comma-joined text
  codec_out         \* the list csv_str_to_list reads back from the text

vars ==
  <<pc, shown, calls, last, df_all, ids, display_df, edited, nEdits, drawer_open,
    drawer_row, refresh_counter, i, updates, problems, failures, rc0,
    codec_in, codec_text, codec_out>>

tableVars == <<df_all, ids, display_df, edited, nEdits>>
saveVars == <<i, updates, problems, failures, rc0>>
sessionVars == <<drawer_open, drawer_row, refresh_counter>>
codecVars == <<codec_in, codec_text, codec_out>>

NoCall == [op |-> "none", resp |-> Fault, ok |-> FALSE, msg |-> <<>>]
Call(op, r, ok, msg) == [op |-> op, resp |-> r, ok |-> ok, msg |-> msg]

Init ==
  /\ pc = "tab1"
  /\ shown = {}
  /\ calls = <<>>
  /\ last = NoCall
  /\ df_all = <<>>
  /\ ids = <<>>
  /\ display_df = <<>>
  /\ edited = <<>>
  /\ nEdits = 0
  /\ drawer_open = FALSE
  /\ drawer_row = -1
  /\ refresh_counter = 0
  /\ i = 0
  /\ updates = 0
  /\ problems = 0
  /\ failures = <<>>
  /\ rc0 = 0
  /\ codec_in = List(<<>>)
  /\ codec_text = Str(<<>>)
  /\ codec_out = List(<<>>)

\* ------------------------------------------------------------ tab 1: create
\* a request as recorded in calls: the handler that issued it, for the bulk
\* save the row it was issued for, and whether the handler took it as a success
Entry(req, by, row, ok) ==
  [op |-> req.op, id |-> req.id, payload |-> req.payload, json |-> req.json,
   by |-> by, row |-> row, ok |-> ok]

\* POST /create_card with the sanitized payload as its JSON body
CreateRequest(payload) ==
  [op |-> "POST", id |-> <<>>, payload |-> payload,
   json |-> _clean_payload_for_backend(payload)]

\* payload of "Save extracted contact to DB"
ExtractedPayload(card) ==
  [k \in PayloadKeys |->
     IF k \in ListKeys THEN Or(Get(card, k), List(<<>>))
     ELSE IF k \in {"more_details", "additional_notes"} THEN Or(Get(card, k), Str(<<>>))
     ELSE Get(card, k)]

\* what the extracted-card handler renders for the response r
ExtractedReport(r) ==
  IF r.kind = "fault" THEN {"reach_failed"}
  ELSE IF r.status >= 400 THEN {"create_failed"}
  ELSE IF ~IsJson(r.body) THEN {"reach_failed"}
  ELSE IF r.body = "null" THEN {"inserted", "reach_failed"}
  ELSE {"inserted"}

SaveExtracted ==
  /\ pc = "tab1"
  /\ \E card \in ExtractedCards, r \in CreateResponses :
       /\ calls' = <<Entry(CreateRequest(ExtractedPayload(card)), "extracted", -1,
                           "inserted" \in ExtractedReport(r))>>
       /\ shown' = ExtractedReport(r)
       /\ last' = Call("create_extracted", r, "inserted" \in ExtractedReport(r), <<>>)
  /\ pc' = "fetch1"
  /\ UNCHANGED <<tableVars, saveVars, sessionVars>>
  /\ UNCHANGED codecVars

\* payload of the manual form
ManualPayload(form) ==
  [k \in PayloadKeys |->
     IF k = "phone_numbers" THEN csv_str_to_list(form["phones"])
     ELSE IF k = "social_links" THEN csv_str_to_list(form["social_links"])
     ELSE IF k \in {"more_details", "additional_notes"} THEN Or(form[k], Str(<<>>))
     ELSE form[k]]

\* what the manual-create handler renders for the response r; "crash" is the
\* unguarded r.json() raising
ManualReport(r) ==
  IF r.kind = "fault" THEN {"reach_failed", "create_noresponse"}
  ELSE IF r.status >= 400 THEN {"create_failed", "create_noresponse"}
  ELSE IF r.status \in {200, 201}
       THEN IF ~IsJson(r.body) THEN {"crash"}
            ELSE IF r.body = "null" THEN {"created_nodata"}
            ELSE {"inserted"}
  ELSE {"create_failed"}

ManualCreate ==
  /\ pc = "tab1"
  /\ \E form \in Forms, r \in CreateResponses :
       /\ calls' = <<Entry(CreateRequest(ManualPayload(form)), "manual", -1,
                           "inserted" \in ManualReport(r))>>
       /\ shown' = ManualReport(r) \ {"crash"}
       /\ last' = Call("create_manual", r, "inserted" \in ManualReport(r), <<>>)
       /\ pc' = IF "crash" \in ManualReport(r) THEN "crashed" ELSE "fetch1"
  /\ UNCHANGED <<tableVars, saveVars, sessionVars>>
  /\ UNCHANGED codecVars

\* a run in which no tab-1 button was pressed
NoCreate ==
  /\ pc = "tab1"
  /\ pc' = "fetch1"
  /\ shown' = {}
  /\ calls' = <<>>
  /\ last' = NoCall
  /\ UNCHANGED <<tableVars, saveVars, sessionVars>>
  /\ UNCHANGED codecVars

\* ------------------------------------------------------- tab 2: bulk read
FetchRequest == [op |-> "GET", id |-> <<>>, payload |-> EmptyDict, json |-> EmptyDict]

\* the first read, for the "Download All" button
FetchForDownload ==
  /\ pc = "fetch1"
  /\ \E recs \in Snapshots, r \in FetchResponses :
       LET data == fetch_all_cards(r, recs) IN
       /\ calls' = <<Entry(FetchRequest, "download", -1, ~FetchFailed(r))>>
       /\ shown' = IF FetchFailed(r) THEN {"fetch_failed"} ELSE {}
       /\ last' = Call("fetch", r, ~FetchFailed(r), <<>>)
       /\ pc' = IF HasData(data) /\ PopRaises(data) THEN "crashed" ELSE "fetch2"
  /\ UNCHANGED <<tableVars, saveVars, sessionVars>>
  /\ UNCHANGED codecVars

\* the second read and the construction of df_all, _ids and display_df; the
\* grid starts as display_df; a drawer left open on a row that no longer
\* exists is closed
FetchTable ==
  /\ pc = "fetch2"
  /\ \E recs \in Snapshots, r \in FetchResponses :
       LET data == fetch_all_cards(r, recs)
           df == DfAll(data.l)
           stale == drawer_open /\ drawer_row # -1 /\ drawer_row >= Len(data.l)
       IN
       /\ calls' = <<Entry(FetchRequest, "table", -1, ~FetchFailed(r))>>
       /\ last' = Call("fetch", r, ~FetchFailed(r), <<>>)
       /\ IF ~HasData(data)
          THEN /\ pc' = "nocards"
               /\ shown' = {"nocards"} \cup (IF FetchFailed(r) THEN {"fetch_failed"} ELSE {})
               /\ UNCHANGED <<tableVars, sessionVars>>
          ELSE IF PopRaises(data)
          THEN /\ pc' = "crashed"
               /\ shown' = {}
               /\ UNCHANGED <<tableVars, sessionVars>>
          ELSE /\ pc' = "idle"
               /\ df_all' = df
               /\ ids' = Ids(df)
               /\ display_df' = DisplayDf(df)
               /\ edited' = DisplayDf(df)
               /\ nEdits' = 0
               /\ shown' = IF stale THEN {"drawer_stale"} ELSE {}
               /\ drawer_open' = (drawer_open /\ ~stale)
               /\ drawer_row' = IF stale THEN -1 ELSE drawer_row
               /\ UNCHANGED refresh_counter
  /\ UNCHANGED saveVars
  /\ UNCHANGED codecVars

\* the user changes one cell of the grid
EditCell ==
  /\ pc = "idle"
  /\ ~drawer_open
  /\ nEdits < MaxEdits
  /\ \E row \in 1..Len(edited), e \in Edits :
       /\ e[1] \in DOMAIN edited[row]
       /\ edited' = [edited EXCEPT ![row][e[1]] = e[2]]
  /\ nEdits' = nEdits + 1
  /\ UNCHANGED <<pc, shown, calls, last, df_all, ids, display_df, saveVars, sessionVars>>
  /\ UNCHANGED codecVars

\* ---------------------------------------------------------- tab 2: drawer
OpenDrawer ==
  /\ pc = "idle"
  /\ nEdits = 0
  /\ ~drawer_open
  /\ \E sel_idx \in 0..(Len(df_all) - 1) :
       /\ drawer_open' = TRUE
       /\ drawer_row' = sel_idx
  /\ UNCHANGED <<pc, shown, calls, last, tableVars, saveVars, refresh_counter>>
  /\ UNCHANGED codecVars

DrawerShown == pc = "idle" /\ drawer_open /\ drawer_row # -1
\* id_str = str(row.get("_id"))
DrawerId == df_all[drawer_row + 1]["_id"]

\* the drawer's update payload
DrawerPayload(form) ==
  [k \in PayloadKeys |->
     IF k = "phone_numbers" THEN csv_str_to_list(form["phones"])
     ELSE IF k = "social_links" THEN csv_str_to_list(form["social_links"])
     ELSE Or(form[k], NONE)]

DrawerSave ==
  /\ DrawerShown
  /\ \E form \in Forms, r \in WriteResponses :
       LET res == patch_card(r) IN
       /\ calls' = <<Entry(PatchRequest(DrawerId, DrawerPayload(form)), "drawer", -1, res.ok)>>
       /\ last' = Call("patch", r, res.ok, res.msg)
       /\ shown' = {IF res.ok THEN "drawer_updated" ELSE "drawer_update_failed"}
       /\ drawer_open' = (drawer_open /\ ~res.ok)
       /\ drawer_row' = IF res.ok THEN -1 ELSE drawer_row
       /\ refresh_counter' = IF res.ok THEN refresh_counter + 1 ELSE refresh_counter
  /\ pc' = "done"
  /\ UNCHANGED <<tableVars, saveVars>>
  /\ UNCHANGED codecVars

DrawerDelete ==
  /\ DrawerShown
  /\ \E r \in WriteResponses :
       LET res == delete_card(r) IN
       /\ calls' = <<Entry(DeleteRequest(DrawerId), "drawer", -1, res.ok)>>
       /\ last' = Call("delete", r, res.ok, res.msg)
       /\ shown' = {IF res.ok THEN "drawer_deleted" ELSE "drawer_delete_failed"}
       /\ drawer_open' = (drawer_open /\ ~res.ok)
       /\ drawer_row' = IF res.ok THEN -1 ELSE drawer_row
       /\ refresh_counter' = IF res.ok THEN refresh_counter + 1 ELSE refresh_counter
  /\ pc' = "done"
  /\ UNCHANGED <<tableVars, saveVars>>
  /\ UNCHANGED codecVars

DrawerClose ==
  /\ DrawerShown
  /\ drawer_open' = FALSE
  /\ drawer_row' = -1
  /\ refresh_counter' = refresh_counter + 1
  /\ pc' = "done"
  /\ shown' = {}
  /\ calls' = <<>>
  /\ last' = NoCall
  /\ UNCHANGED <<tableVars, saveVars>>
  /\ UNCHANGED codecVars

\* ------------------------------------------------------- tab 2: bulk save
SaveClicked ==
  /\ pc = "idle"
  /\ pc' = "saving"
  /\ i' = 0
  /\ updates' = 0
  /\ problems' = 0
  /\ failures' = <<>>
  /\ rc0' = refresh_counter
  /\ shown' = {}
  /\ calls' = <<>>
  /\ last' = NoCall
  /\ UNCHANGED <<tableVars, sessionVars>>
  /\ UNCHANGED codecVars

\* `if success: updates += 1 else: problems += 1`
CountUpdate(n, success) == IF success THEN n + 1 ELSE n
CountProblem(n, success) == IF success THEN n ELSE n + 1

\* a failed update aborts the loop
AfterAttemptAbort(k, success) == IF success THEN k + 1 ELSE Len(edited)
\* the loop index after the update attempt of row k: patch_card returns its
\* failure, so the loop goes on to the next row whatever the result
AfterAttempt(k, success) == k + 1

\* one iteration of `for i in range(len(edited))`
SaveRow ==
  /\ pc = "saving"
  /\ i < Len(edited)
  /\ LET change_set == ChangeSet(display_df[i + 1], edited[i + 1])
         card_id == ids[i + 1]
     IN
     IF DOMAIN change_set = {}
     THEN /\ i' = i + 1
          /\ UNCHANGED <<shown, calls, last, updates, problems, failures>>
     ELSE \E r \in WriteResponses :
            LET res == patch_card(r) IN
            /\ calls' = Append(calls, Entry(PatchRequest(card_id, change_set), "save", i, res.ok))
            /\ UNCHANGED last
            /\ updates' = CountUpdate(updates, res.ok)
            /\ problems' = CountProblem(problems, res.ok)
            /\ failures' = IF res.ok THEN failures
                           ELSE Append(failures, PyStr(card_id))
            /\ shown' = shown \cup (IF res.ok THEN {} ELSE {"row_failed"})
            /\ i' = AfterAttempt(i, res.ok)
  /\ UNCHANGED <<pc, rc0, tableVars, sessionVars>>
  /\ UNCHANGED codecVars

\* a summary that does not tell "nothing to do" from "all failed"
SummaryNoFailures(u, p) == IF u > 0 THEN "updated_refreshing" ELSE "no_changes"
\* a counter advanced once per updated row
RefreshPerUpdate(rc, u) == rc + u
\* the result summary after the loop: the message rendered and the new
\* refresh counter
Summary(u, p) ==
  IF u > 0 THEN "updated_refreshing"
  ELSE IF p = 0 THEN "no_changes" ELSE "completed_with_failures"
RefreshAfterSave(rc, u) == IF u > 0 THEN rc + 1 ELSE rc

SaveFinish ==
  /\ pc = "saving"
  /\ i = Len(edited)
  /\ shown' = shown \cup {Summary(updates, problems)}
  /\ refresh_counter' = RefreshAfterSave(refresh_counter, updates)
  /\ pc' = "done"
  /\ UNCHANGED <<calls, last, tableVars, saveVars, drawer_open, drawer_row>>
  /\ UNCHANGED codecVars

\* the script runs again: run-local values are rebuilt, session state is kept
Rerun ==
  /\ pc \in {"done", "nocards", "crashed"}
  /\ refresh_counter < MaxRefresh
  /\ pc' = "tab1"
  /\ shown' = {}
  /\ calls' = <<>>
  /\ last' = NoCall
  /\ df_all' = <<>>
  /\ ids' = <<>>
  /\ display_df' = <<>>
  /\ edited' = <<>>
  /\ nEdits' = 0
  /\ i' = 0
  /\ updates' = 0
  /\ problems' = 0
  /\ failures' = <<>>
  /\ rc0' = 0
  /\ UNCHANGED sessionVars
  /\ UNCHANGED codecVars

Next ==
  \/ SaveExtracted
  \/ ManualCreate
  \/ NoCreate
  \/ FetchForDownload
  \/ FetchTable
  \/ EditCell
  \/ OpenDrawer
  \/ DrawerSave
  \/ DrawerDelete
  \/ DrawerClose
  \/ SaveClicked
  \/ SaveRow
  \/ SaveFinish
  \/ Rerun

Spec == Init /\ [][Next]_vars

\* ------------------------------------------------- the field codec alone
\* Lists handed to the codec: up to MaxListLen entries, each one of a few
\* texts, well-formed ones and ones that are empty, padded or hold a comma
CodecTexts ==
  {<<>>, <<"a">>, <<"b">>, <<"a", " ", "b">>, <<" ", "a">>, <<"a", " ">>,
   <<"a", ",", "b">>, <<",">>}
CodecLists ==
  UNION {{List([k \in 1..n |-> Str(f[k])]) : f \in [1..n -> CodecTexts]} : n \in 0..MaxListLen}

CodecInit ==
  /\ pc = "encode"
  /\ shown = {}
  /\ calls = <<>>
  /\ last = NoCall
  /\ df_all = <<>>
  /\ ids = <<>>
  /\ display_df = <<>>
  /\ edited = <<>>
  /\ nEdits = 0
  /\ drawer_open = FALSE
  /\ drawer_row = -1
  /\ refresh_counter = 0
  /\ i = 0
  /\ updates = 0
  /\ problems = 0
  /\ failures = <<>>
  /\ rc0 = 0
  /\ codec_in \in CodecLists
  /\ codec_text = Str(<<>>)
  /\ codec_out = List(<<>>)

\* list_to_csv_str applied to the list
Encode ==
  /\ pc = "encode"
  /\ codec_text' = list_to_csv_str(codec_in)
  /\ pc' = "decode"
  /\ UNCHANGED <<codec_in, codec_out>>
  /\ UNCHANGED <<shown, calls, last, tableVars, saveVars, sessionVars>>

\* csv_str_to_list applied to the text
Decode ==
  /\ pc = "decode"
  /\ codec_out' = csv_str_to_list(codec_text)
  /\ pc' = "decoded"
  /\ UNCHANGED <<codec_in, codec_text>>
  /\ UNCHANGED <<shown, calls, last, tableVars, saveVars, sessionVars>>

CodecNext ==
  \/ Encode
  \/ Decode

CodecSpec == CodecInit /\ [][CodecNext]_vars

\* ------------------------------------------------------------- properties
\* the bulk-save handler has finished
SaveDone ==
  /\ pc = "done"
  /\ shown \cap {"updated_refreshing", "no_changes", "completed_with_failures"} # {}
InSave == pc = "saving" \/ SaveDone
\* rows the loop has gone past, as 1-based positions
RowsDone == IF pc = "saving" THEN i ELSE Len(edited)

\* the stringified value of a cell, a missing one read as the empty string
StrOf(v) == IF v.t \in {"none", "nan"} THEN <<>> ELSE PyStr(v)
Differs(r, c) == StrOf(display_df[r][c]) # StrOf(edited[r][c])
DiffersIn(r) == {c \in DOMAIN display_df[r] : Differs(r, c)}
ChangedRows == {r \in 1..Len(edited) : r <= RowsDone /\ DiffersIn(r) # {}}
Succeeded == {k \in DOMAIN calls : calls[k].ok}
Failed == {k \in DOMAIN calls : ~calls[k].ok}

\* C1: a failed row update never prevents the attempt on a later changed row,
\* and the tallies are exact: updates counts the successful update calls,
\* problems the failed ones, and together they count the changed rows.
C1_FailureIsolation ==
  InSave =>
    /\ updates = Cardinality(Succeeded)
    /\ problems = Cardinality(Failed)
    /\ {calls[k].row + 1 : k \in DOMAIN calls} = ChangedRows
    /\ updates + problems = Cardinality(ChangedRows)
\* a failure on the first changed row, then a successful update of a later one
C1_Witness ==
  /\ SaveDone
  /\ Len(calls) = 2
  /\ ~calls[1].ok
  /\ calls[2].ok
  /\ calls[1].row < calls[2].row

\* C2: the update calls of a bulk save are issued in ascending row order, one
\* per changed row and none for any other row, each addressed to the
\* string-coerced identifier at that row of the fetched snapshot.
C2_AscendingOnePerRow ==
  InSave =>
    /\ \A k \in DOMAIN calls :
         /\ calls[k].by = "save"
         /\ calls[k].op = "PATCH"
         /\ calls[k].row + 1 \in ChangedRows
         /\ calls[k].id = PyStr(df_all[calls[k].row + 1]["_id"])
    /\ \A k, l \in DOMAIN calls : k < l => calls[k].row < calls[l].row
    /\ Len(calls) = Cardinality(ChangedRows)
\* two rows with different identifiers, one of them numeric, both updated
C2_Witness ==
  /\ SaveDone
  /\ Len(calls) = 2
  /\ calls[1].id = <<"a">>
  /\ calls[2].id = <<"7">>

\* C3: no update request of a bulk save carries an empty field map.
C3_NoEmptyUpdateSent ==
  \A k \in DOMAIN calls : calls[k].by = "save" => DOMAIN calls[k].json # {}

\* C4: no change set and no create or update payload has the key created_at
\* or edited_at.
C4_TimestampsNotWritten ==
  \A k \in DOMAIN calls :
    calls[k].op \in {"PATCH", "POST"} =>
      {"created_at", "edited_at"} \cap (DOMAIN calls[k].payload \cup DOMAIN calls[k].json) = {}

\* C5: a bulk save of a grid that differs from the snapshot in no cell issues
\* no call and ends with both tallies zero and the "no changes" message; a
\* save whose updates all failed ends with the "failures" message instead.
C5_EmptyDiffShortCircuits ==
  SaveDone =>
    /\ ChangedRows = {} =>
         /\ calls = <<>>
         /\ updates = 0
         /\ problems = 0
         /\ "no_changes" \in shown
         /\ "completed_with_failures" \notin shown
    /\ (calls # <<>> /\ Succeeded = {}) =>
         /\ "completed_with_failures" \in shown
         /\ "no_changes" \notin shown
\* the user typed into the grid, yet no cell's stringified value differs
C5_Witness ==
  /\ SaveDone
  /\ nEdits > 0
  /\ edited # display_df
  /\ ChangedRows = {}
  /\ "no_changes" \in shown

\* the change-set value the claim gives a changed column: the edited value
\* through text_to_list for a list column, the edited value itself otherwise
ClaimedValue(r, c) ==
  IF c \in {"phone_numbers", "social_links"} THEN csv_str_to_list(edited[r][c])
  ELSE edited[r][c]
\* the same with a missing edited value read as the empty string
AmendedValue(r, c) ==
  LET n == IF edited[r][c].t \in {"none", "nan"} THEN Str(<<>>) ELSE edited[r][c] IN
  IF c \in {"phone_numbers", "social_links"} THEN csv_str_to_list(n) ELSE n
\* the columns of the change sets are the columns whose stringified values differ
DiffScoped ==
  /\ \A k \in DOMAIN calls : DOMAIN calls[k].payload = DiffersIn(calls[k].row + 1)
  /\ \A r \in 1..RowsDone : DiffersIn(r) = {} => \A k \in DOMAIN calls : calls[k].row + 1 # r
  /\ (SaveDone /\ edited = display_df) => calls = <<>>

\* C6 as stated: a column is in a row's change set exactly if the stringified
\* values differ, with text_to_list(edited value) for the list columns and
\* the edited value verbatim for the others.
C6_DiffVerbatim ==
  InSave =>
    /\ DiffScoped
    /\ \A k \in DOMAIN calls : \A c \in DOMAIN calls[k].payload :
         calls[k].payload[c] = ClaimedValue(calls[k].row + 1, c)
\* C6 as amended: the same, the change-set value being computed from the
\* edited value with a missing/NaN cell replaced by the empty string.
C6_DiffScoped ==
  InSave =>
    /\ DiffScoped
    /\ \A k \in DOMAIN calls : \A c \in DOMAIN calls[k].payload :
         calls[k].payload[c] = AmendedValue(calls[k].row + 1, c)
\* a cleared name and a retyped phone list in one row: the change set holds ""
\* and the parsed list, and nothing else
C6_Witness ==
  /\ SaveDone
  /\ \E k \in DOMAIN calls :
       /\ DOMAIN calls[k].payload = {"name", "phone_numbers"}
       /\ calls[k].payload["name"] = Str(<<>>)
       /\ edited[calls[k].row + 1]["name"] = NONE
       /\ calls[k].payload["phone_numbers"] = List(<<Str(<<"a">>), Str(<<"b">>)>>)

\* C7: when a bulk save finishes, the refresh counter is one more than when it
\* started if some row update succeeded, and unchanged otherwise.
C7_RefreshAfterSuccess ==
  SaveDone => refresh_counter = rc0 + (IF Succeeded # {} THEN 1 ELSE 0)
\* two updates succeeded and the counter advanced by one
C7_Witness ==
  /\ SaveDone
  /\ Cardinality(Succeeded) = 2
  /\ refresh_counter = rc0 + 1

\* C8: patch_card returns success exactly on 200/201 and delete_card exactly on
\* 200/204; every other response and every transport fault comes back as
\* (false, message), and the run goes on.
C8_FailuresAsData ==
  /\ last.op = "patch" =>
       /\ last.ok <=> (last.resp.kind = "http" /\ last.resp.status \in {200, 201})
       /\ last.msg # <<>>
       /\ pc # "crashed"
  /\ last.op = "delete" =>
       /\ last.ok <=> (last.resp.kind = "http" /\ last.resp.status \in {200, 204})
       /\ last.msg # <<>>
       /\ pc # "crashed"
\* an update answered 204 is a failure with a message
C8_Witness ==
  /\ last.op = "patch"
  /\ last.resp.kind = "http"
  /\ last.resp.status = 204
  /\ ~last.ok
  /\ last.msg = <<"Failed: ", "nodata">>

\* C9: in both create flows the record is reported as inserted exactly if the
\* response status is 200 or 201 (the body being the record the backend made).
C9_CreateOn200or201 ==
  last.op \in {"create_extracted", "create_manual"} =>
    IF last.resp.kind = "http" /\ last.resp.status \in {200, 201}
    THEN last.resp.body = "data" => "inserted" \in shown
    ELSE "inserted" \notin shown

\* C10: a bulk read that fails, or that answers without the "data" member,
\* leaves the caller with no cards and the run going on.
C10_FetchDegradesToEmpty ==
  (/\ last.op = "fetch"
   /\ \/ last.resp.kind = "fault"
      \/ last.resp.status >= 300
      \/ last.resp.body \in {"nodata", "empty", "text"})
  => pc \in {"fetch2", "nocards"}


\* C11: the identifier field _id is a key of no change set and of no create or
\* update payload, before or after sanitation; it only addresses the update
\* and delete calls, and a create call is addressed to no record.
C11_IdentifierNotWritten ==
  \A k \in DOMAIN calls :
    /\ calls[k].op \in {"PATCH", "POST"} =>
         "_id" \notin (DOMAIN calls[k].payload \cup DOMAIN calls[k].json)
    /\ (calls[k].op = "PATCH" /\ calls[k].by = "save") =>
         calls[k].id = PyStr(df_all[calls[k].row + 1]["_id"])
    /\ calls[k].op = "POST" => calls[k].id = <<>>
\* a bulk save that updated the record "a" with a non-empty change set
C11_Witness ==
  /\ SaveDone
  /\ \E k \in DOMAIN calls :
       /\ calls[k].op = "PATCH"
       /\ calls[k].id = <<"a">>
       /\ DOMAIN calls[k].payload # {}
       /\ df_all[calls[k].row + 1]["_id"] = Str(<<"a">>)


\* a value the sanitation drops: null, or a text of nothing but blanks
Dropped(v) == v.t = "none" \/ (v.t = "str" /\ \A n \in 1..Len(v.s) : v.s[n] = " ")
\* C12: the body of every create and update call is the sanitized payload: it
\* has exactly the entries whose value is neither null nor a blank text; for
\* phone_numbers and social_links a list is kept and any other value goes
\* through text_to_list; every other kept value is unchanged.
C12_SanitizedBeforeSend ==
  \A k \in DOMAIN calls :
    calls[k].op \in {"PATCH", "POST"} =>
      LET p == calls[k].payload
          j == calls[k].json
      IN
      /\ DOMAIN j = {x \in DOMAIN p : ~Dropped(p[x])}
      /\ \A x \in DOMAIN j :
           IF x \in {"phone_numbers", "social_links"}
           THEN IF p[x].t = "list" THEN j[x] = p[x] ELSE j[x] = csv_str_to_list(p[x])
           ELSE j[x] = p[x]
\* a create payload with null fields, a blank email and a text of phone
\* numbers: the body keeps the name and carries the parsed list
C12_Witness ==
  \E k \in DOMAIN calls :
    /\ calls[k].op = "POST"
    /\ calls[k].payload["company"] = NONE
    /\ calls[k].payload["email"] = Str(<<" ">>)
    /\ calls[k].payload["phone_numbers"].t = "str"
    /\ DOMAIN calls[k].json = {"name", "phone_numbers", "social_links"}
    /\ calls[k].json["phone_numbers"] = List(<<Str(<<"1">>), Str(<<"2">>), Str(<<"3">>)>>)
    /\ calls[k].json["social_links"] = List(<<>>)


\* an entry the round trip keeps: not empty, no comma, no blank at either end
WellFormed(e) ==
  /\ e.t = "str"
  /\ e.s # <<>>
  /\ \A n \in 1..Len(e.s) : e.s[n] # ","
  /\ e.s[1] # " "
  /\ e.s[Len(e.s)] # " "
\* C13: a list of non-empty, comma-free texts without blanks at their ends is
\* read back from its comma-joined text unchanged: same entries, same order.
C13_RoundTrip ==
  (pc = "decoded" /\ \A n \in 1..Len(codec_in.l) : WellFormed(codec_in.l[n]))
    => codec_out = codec_in
\* two entries, one with a blank inside, joined and read back
C13_Witness ==
  /\ pc = "decoded"
  /\ codec_in = List(<<Str(<<"a", " ", "b">>), Str(<<"b">>)>>)
  /\ codec_text = Str(<<"a", " ", "b", ",", " ", "b">>)
  /\ codec_out = codec_in

====
